---- MODULE Spec2Model ----
(***************************************************************************)
(* Sieve-analysis engine of KINTOUKEISUU: validateData, getDValue,          *)
(* handleCalculate and the grid/case handlers of the App component.         *)
(*                                                                          *)
(* The repository holds two revisions of the component:                     *)
(*   "App"      src/sieve-analysis-app/src/App.tsx                          *)
(*   "part_000" src/unnamed/part_000                                        *)
(* The variable rev fixes which revision a behaviour runs; definitions      *)
(* with the suffix _p0 are the part_000 text of the same function.          *)
(*                                                                          *)
(* Numbers.  Sieve sizes are integers; the positive ones are powers of ten  *)
(* so that Math.log10 is exact.  A value of TypeScript type number|string   *)
(* is a record [kind, val, num, den, str]:                                  *)
(*   kind = "number" : the integer val                                      *)
(*   kind = "pow10"  : the positive real 10^(num/den), den > 0, reduced     *)
(*   kind = "string" : the string str (a sentinel)                          *)
(*   kind = "NaN", "null" : the JavaScript values NaN and null              *)
(* Raw cell texts are sequences of one-character strings.                   *)
(* Sequence indices are 1-based: rowIndex i here is rowIndex i-1 there.     *)
(***************************************************************************)
EXTENDS Integers, Sequences, FiniteSets, TLC

VARIABLES
    rev,                \* which revision of the component is running
    sieveData,          \* useState<SieveDataRow[]>: the grid
    cases,              \* useState<string[]>: case n stands for `Case ${n}`
    results,            \* useState<ResultRow[]>
    validationMessages, \* useState<ValidationMessage[]>
    visibleCases,       \* useState<Record<string, boolean>>
    dLineCase,          \* useState<string>
    alerted,            \* TRUE iff the last handler raised the alert() dialog
    lastHandler,        \* the handler that ran last ("" after construction)
    edits,              \* number of grid edits made so far (bounded by MaxEdits)
    points,             \* argument of a direct getDValue call
    target,             \* argument of a direct getDValue call
    dValue              \* result of a direct getDValue call

vars == <<rev, sieveData, cases, results, validationMessages, visibleCases,
          dLineCase, alerted, lastHandler, edits, points, target, dValue>>

Revisions == {"App", "part_000"}

----------------------------------------------------------------------------
(* JavaScript values *)

JSNumber(v) == [kind |-> "number", val |-> v, num |-> 0, den |-> 1, str |-> ""]
JSString(s) == [kind |-> "string", val |-> 0, num |-> 0, den |-> 1, str |-> s]
NaN == [kind |-> "NaN", val |-> 0, num |-> 0, den |-> 1, str |-> ""]
null == [kind |-> "null", val |-> 0, num |-> 0, den |-> 1, str |-> ""]

\* typeof v === "number" for a D-value, Cu or Cc (these are never NaN)
IsNumber(v) == v.kind \in {"number", "pow10"}

Abs(n) == IF n < 0 THEN -n ELSE n

RECURSIVE GCD(_, _)
GCD(a, b) == IF b = 0 THEN a ELSE GCD(b, a % b)

\* the rational n/d (d # 0) in lowest terms with a positive denominator
Rat(n, d) ==
    LET g == GCD(Abs(n), Abs(d))
        s == IF d < 0 THEN -1 ELSE 1
    IN  <<(s * n) \div g, (s * d) \div g>>

RatLeq(a, b) == a[1] * b[2] <= b[1] * a[2]
RatLess(a, b) == a[1] * b[2] < b[1] * a[2]

\* Math.log10 of a positive power of ten
RECURSIVE Log10(_)
Log10(n) == IF n <= 1 THEN 0 ELSE 1 + Log10(n \div 10)

\* Math.pow(10, n/d)
Pow10(q) == [kind |-> "pow10", val |-> 0, num |-> q[1], den |-> q[2], str |-> ""]

\* log10 of a positive number value, as a rational
LogOf(v) == IF v.kind = "number" THEN <<Log10(v.val), 1>> ELSE <<v.num, v.den>>

\* v > 0 for a number value
Positive(v) == IF v.kind = "number" THEN v.val > 0 ELSE TRUE

\* a / b for positive number values
Divide(a, b) ==
    LET la == LogOf(a)
        lb == LogOf(b)
    IN  Pow10(Rat(la[1] * lb[2] - lb[1] * la[2], la[2] * lb[2]))

\* a * b for positive number values
Times(a, b) ==
    LET la == LogOf(a)
        lb == LogOf(b)
    IN  Pow10(Rat(la[1] * lb[2] + lb[1] * la[2], la[2] * lb[2]))

\* a <= b for positive number values
NumLeq(a, b) == RatLeq(LogOf(a), LogOf(b))

----------------------------------------------------------------------------
(* Cell texts and their conversion to numbers *)

Digits == {"0", "1", "2", "3", "4", "5", "6", "7", "8", "9"}

DigitVal(c) ==
    CASE c = "0" -> 0 [] c = "1" -> 1 [] c = "2" -> 2 [] c = "3" -> 3
      [] c = "4" -> 4 [] c = "5" -> 5 [] c = "6" -> 6 [] c = "7" -> 7
      [] c = "8" -> 8 [] c = "9" -> 9

\* String.prototype.trim
RECURSIVE TrimStart(_)
TrimStart(s) == IF s # <<>> /\ Head(s) = " " THEN TrimStart(Tail(s)) ELSE s

RECURSIVE TrimEnd(_)
TrimEnd(s) ==
    IF s # <<>> /\ s[Len(s)] = " " THEN TrimEnd(SubSeq(s, 1, Len(s) - 1)) ELSE s

trim(s) == TrimEnd(TrimStart(s))

\* value of a digit string, most significant digit first
RECURSIVE DigitsValue(_)
DigitsValue(s) ==
    IF s = <<>> THEN 0
    ELSE 10 * DigitsValue(SubSeq(s, 1, Len(s) - 1)) + DigitVal(s[Len(s)])

\* the longest prefix of s made of digits
RECURSIVE DigitPrefix(_)
DigitPrefix(s) ==
    IF s # <<>> /\ Head(s) \in Digits THEN <<Head(s)>> \o DigitPrefix(Tail(s))
    ELSE <<>>

\* Number(s): the whole trimmed text must be a signed digit string
Number(s) ==
    LET t == trim(s)
        neg == t # <<>> /\ Head(t) = "-"
        body == IF t # <<>> /\ Head(t) \in {"-", "+"} THEN Tail(t) ELSE t
    IN  IF t = <<>> THEN JSNumber(0)
        ELSE IF body # <<>> /\ DigitPrefix(body) = body
             THEN JSNumber(IF neg THEN -DigitsValue(body) ELSE DigitsValue(body))
             ELSE NaN

\* parseFloat(s): the longest signed digit prefix after leading blanks
parseFloat(s) ==
    LET t == TrimStart(s)
        neg == t # <<>> /\ Head(t) = "-"
        body == IF t # <<>> /\ Head(t) \in {"-", "+"} THEN Tail(t) ELSE t
        pre == DigitPrefix(body)
    IN  IF pre = <<>> THEN NaN
        ELSE JSNumber(IF neg THEN -DigitsValue(pre) ELSE DigitsValue(pre))

toNumberOrNull(v) ==
    LET s == trim(v)
    IN  IF s = <<>> THEN null
        ELSE LET n == Number(s)
             IN  IF n.kind = "NaN" THEN null ELSE n

----------------------------------------------------------------------------
(* getDValue: the sieve size at which a target percentage passes *)

\* the sentinel strings of the code, transliterated
InsufficientData == "InsufficientData"  \* the "data insufficient" string
OutOfRange == "OutOfRange"              \* the "out of range" string
Indeterminate == "Indeterminate"        \* the "cannot compute" string
NotApplicable == "N/A"

Point(size, passing) == [sieveSize |-> size, passing |-> passing]

\* one step of Array.prototype.sort (stable) under (a, b) => a.passing - b.passing:
\* x goes behind every element that does not compare greater than it
InsertByPassing(s, x) ==
    LET k == Cardinality({i \in 1..Len(s) : s[i].passing <= x.passing})
    IN  SubSeq(s, 1, k) \o <<x>> \o SubSeq(s, k + 1, Len(s))

RECURSIVE SortByPassing(_)
SortByPassing(s) ==
    IF s = <<>> THEN <<>>
    ELSE InsertByPassing(SortByPassing(SubSeq(s, 1, Len(s) - 1)), s[Len(s)])

\* one step of the stable sort under (a, b) => b.sieveSize - a.sieveSize
InsertBySizeDesc(s, x) ==
    LET k == Cardinality({i \in 1..Len(s) : s[i].sieveSize >= x.sieveSize})
    IN  SubSeq(s, 1, k) \o <<x>> \o SubSeq(s, k + 1, Len(s))

RECURSIVE SortBySizeDesc(_)
SortBySizeDesc(s) ==
    IF s = <<>> THEN <<>>
    ELSE InsertBySizeDesc(SortBySizeDesc(SubSeq(s, 1, Len(s) - 1)), s[Len(s)])

\* points.filter((p) => p.sieveSize > 0 && !Number.isNaN(p.passing));
\* a point's passing is an integer here, never NaN
UsablePoints(pts) == SelectSeq(pts, LAMBDA p : p.sieveSize > 0)

\* IsOutOfRange without the test against maxP
IsOutOfRange_LowerOnly(valid, tgt) == tgt < valid[1].passing

\* IsOutOfRange with the bounds themselves rejected
IsOutOfRange_Closed(valid, tgt) ==
    tgt <= valid[1].passing \/ tgt >= valid[Len(valid)].passing

\* target < minP || target > maxP, over the points sorted by passing
IsOutOfRange(valid, tgt) ==
    tgt < valid[1].passing \/ tgt > valid[Len(valid)].passing

\* BracketStep without the p2 === null test: p2 ends as the last point above
BracketStep_LastAbove(valid, tgt, i, b) ==
    <<IF valid[i].passing <= tgt THEN i ELSE b[1],
      IF valid[i].passing >= tgt THEN i ELSE b[2]>>

\* the body of the bracketing loop for index i; p1, p2 are indices, 0 is null
BracketStep(valid, tgt, i, b) ==
    <<IF valid[i].passing <= tgt THEN i ELSE b[1],
      IF valid[i].passing >= tgt /\ b[2] = 0 THEN i ELSE b[2]>>

RECURSIVE BracketLoop(_, _, _, _)
BracketLoop(valid, tgt, i, b) ==
    IF i > Len(valid) THEN b
    ELSE BracketLoop(valid, tgt, i + 1, BracketStep(valid, tgt, i, b))

\* <<p1, p2>> after the loop
Brackets(valid, tgt) == BracketLoop(valid, tgt, 1, <<0, 0>>)

\* Interpolate starting from logD2 instead of logD1
Interpolate_FromUpper(p1, p2, tgt) ==
    LET logD1 == Log10(p1.sieveSize)
        logD2 == Log10(p2.sieveSize)
        dp == p2.passing - p1.passing
    IN  Pow10(Rat(logD2 * dp + (logD2 - logD1) * (tgt - p1.passing), dp))

\* Math.pow(10, logD1 + ((logD2 - logD1) * (target - p1.passing)) / (p2.passing - p1.passing))
Interpolate(p1, p2, tgt) ==
    LET logD1 == Log10(p1.sieveSize)
        logD2 == Log10(p2.sieveSize)
        dp == p2.passing - p1.passing
    IN  Pow10(Rat(logD1 * dp + (logD2 - logD1) * (tgt - p1.passing), dp))

\* AfterLoop without the two exact-hit returns
AfterLoop_NoExactHit(valid, tgt, checkSize) ==
    LET b == BracketLoop(valid, tgt, 1, <<0, 0>>)
        p1 == b[1]
        p2 == b[2]
    IN  IF p1 = 0 \/ p2 = 0 \/ p1 = p2 THEN JSString("Indeterminate")
        ELSE IF checkSize /\ (valid[p1].sieveSize <= 0 \/ valid[p2].sieveSize <= 0)
             THEN JSString("Indeterminate")
        ELSE IF valid[p2].passing = valid[p1].passing
             THEN JSNumber(valid[p1].sieveSize)
        ELSE Interpolate(valid[p1], valid[p2], tgt)

\* the statements after the loop; checkSize is the App.tsx test of the
\* bracketing sieve sizes, absent from part_000
AfterLoop(valid, tgt, checkSize) ==
    LET b == Brackets(valid, tgt)
        p1 == b[1]
        p2 == b[2]
    IN  IF p1 # 0 /\ valid[p1].passing = tgt THEN JSNumber(valid[p1].sieveSize)
        ELSE IF p2 # 0 /\ valid[p2].passing = tgt THEN JSNumber(valid[p2].sieveSize)
        ELSE IF p1 = 0 \/ p2 = 0 \/ p1 = p2 THEN JSString(Indeterminate)
        ELSE IF checkSize /\ (valid[p1].sieveSize <= 0 \/ valid[p2].sieveSize <= 0)
             THEN JSString(Indeterminate)
        ELSE IF valid[p2].passing = valid[p1].passing
             THEN JSNumber(valid[p1].sieveSize)
        ELSE Interpolate(valid[p1], valid[p2], tgt)

\* getDValue of App.tsx with the length test off by one
getDValue_MinOne(pts, tgt) ==
    LET valid == SortByPassing(UsablePoints(pts))
    IN  IF Len(valid) < 1 THEN JSString(InsufficientData)
        ELSE IF IsOutOfRange(valid, tgt) THEN JSString(OutOfRange)
        ELSE AfterLoop(valid, tgt, TRUE)

\* getDValue of App.tsx
getDValue(pts, tgt) ==
    LET valid == SortByPassing(UsablePoints(pts))
    IN  IF Len(valid) < 2 THEN JSString(InsufficientData)
        ELSE IF IsOutOfRange(valid, tgt) THEN JSString(OutOfRange)
        ELSE AfterLoop(valid, tgt, TRUE)

\* getDValue of part_000: no filter, sorted by size first, no size test
getDValue_p0(data, targetPercentage) ==
    LET sortedBySize == SortBySizeDesc(data)
        sortedByPassing == SortByPassing(sortedBySize)
    IN  IF Len(sortedByPassing) < 2 THEN JSString(InsufficientData)
        ELSE IF IsOutOfRange(sortedByPassing, targetPercentage)
             THEN JSString(OutOfRange)
        ELSE AfterLoop(sortedByPassing, targetPercentage, FALSE)

\* the getDValue of the running revision
GetDValue(r, pts, tgt) ==
    IF r = "App" THEN getDValue(pts, tgt) ELSE getDValue_p0(pts, tgt)

----------------------------------------------------------------------------
(* validateData *)

Row(size, vals) == [sieveSize |-> size, vals |-> vals]

Message(idx, caseName, type) == [rowIndex |-> idx, caseName |-> caseName, type |-> type]

\* data.findIndex((d) => d.sieveSize === size); size is the size of a row of data
FindIndex(data, size) ==
    CHOOSE i \in 1..Len(data) :
        /\ data[i].sieveSize = size
        /\ \A j \in 1..(i - 1) : data[j].sieveSize # size

\* ValidateRow with last also set by an out-of-range value
ValidateRow_LastOnError(acc, idx, caseName, text) ==
    LET value == toNumberOrNull(text)
    IN  IF value.kind = "null" THEN acc
        ELSE IF value.val < 0 \/ value.val > 100
             THEN [messages |-> Append(acc.messages, Message(idx, caseName, "error")),
                   last |-> value]
        ELSE [messages |->
                 IF acc.last.kind # "null" /\ value.val > acc.last.val
                 THEN Append(acc.messages, Message(idx, caseName, "warning"))
                 ELSE acc.messages,
              last |-> value]

\* ValidateRow with last left alone when a Warning is emitted
ValidateRow_KeepLastOnWarning(acc, idx, caseName, text) ==
    LET value == toNumberOrNull(text)
    IN  IF value.kind = "null" THEN acc
        ELSE IF value.val < 0 \/ value.val > 100
             THEN [acc EXCEPT !.messages = Append(@, Message(idx, caseName, "error"))]
        ELSE IF acc.last.kind # "null" /\ value.val > acc.last.val
             THEN [acc EXCEPT !.messages = Append(@, Message(idx, caseName, "warning"))]
        ELSE [messages |-> acc.messages, last |-> value]

\* the body of sorted.forEach in App.tsx; acc = [messages, last]
ValidateRow(acc, idx, caseName, text) ==
    LET value == toNumberOrNull(text)
    IN  IF value.kind = "null" THEN acc
        ELSE IF value.val < 0 \/ value.val > 100
             THEN [acc EXCEPT !.messages = Append(@, Message(idx, caseName, "error"))]
        ELSE [messages |->
                 IF acc.last.kind # "null" /\ value.val > acc.last.val
                 THEN Append(acc.messages, Message(idx, caseName, "warning"))
                 ELSE acc.messages,
              last |-> value]

\* the body of sortedData.forEach in part_000
ValidateRow_p0(acc, idx, caseName, valueStr) ==
    IF valueStr = <<>> \/ trim(valueStr) = <<>> THEN acc
    ELSE LET value == parseFloat(valueStr)
         IN  IF value.kind = "NaN" \/ value.val < 0 \/ value.val > 100
             THEN [acc EXCEPT !.messages = Append(@, Message(idx, caseName, "error"))]
             ELSE [messages |->
                      IF acc.last.kind # "null" /\ value.val > acc.last.val
                      THEN Append(acc.messages, Message(idx, caseName, "warning"))
                      ELSE acc.messages,
                   last |-> value]

\* the value validateData reads from a cell: null (skipped), NaN or a number
CellValue(r, text) ==
    IF r = "App" THEN toNumberOrNull(text)
    ELSE IF text = <<>> \/ trim(text) = <<>> THEN null
    ELSE parseFloat(text)

ValidateRowOf(r, acc, idx, caseName, text) ==
    IF r = "App" THEN ValidateRow(acc, idx, caseName, text)
    ELSE ValidateRow_p0(acc, idx, caseName, text)

\* sorted.forEach for one case, from position i on
RECURSIVE ScanRows(_, _, _, _, _, _)
ScanRows(r, data, sorted, caseName, i, acc) ==
    IF i > Len(sorted) THEN acc
    ELSE ScanRows(r, data, sorted, caseName, i + 1,
                  ValidateRowOf(r, acc, FindIndex(data, sorted[i].sieveSize),
                                caseName, sorted[i].vals[caseName]))

\* cases.forEach, from case position k on; last starts as null for each case
RECURSIVE ScanCases(_, _, _, _, _, _)
ScanCases(r, data, sorted, cs, k, messages) ==
    IF k > Len(cs) THEN messages
    ELSE ScanCases(r, data, sorted, cs, k + 1,
                   ScanRows(r, data, sorted, cs[k], 1,
                            [messages |-> messages, last |-> null]).messages)

\* validateData scanning the rows in the order given, without the sort
ValidationMessagesOf_Unsorted(r, data, cs) ==
    ScanCases(r, data, data, cs, 1, <<>>)

\* the messages validateData(data) stores with setValidationMessages
ValidationMessagesOf(r, data, cs) ==
    ScanCases(r, data, SortBySizeDesc(data), cs, 1, <<>>)

\* messages.some((m) => m.type === "error")
HasError(messages) == \E i \in 1..Len(messages) : messages[i].type = "error"

\* the value validateData returns
validateData(messages) == ~HasError(messages)

----------------------------------------------------------------------------
(* handleCalculate: one result row per case *)

Target10 == 10
Target30 == 30
Target60 == 60

ResultRow(caseName, D10, D30, D60, Cu, Cc) ==
    [caseName |-> caseName, D10 |-> D10, D30 |-> D30, D60 |-> D60, Cu |-> Cu, Cc |-> Cc]

\* the passing value handleCalculate reads from a cell
PassingOf(r, text) == IF r = "App" THEN toNumberOrNull(text) ELSE parseFloat(text)

\* sieveData.map(...).filter(...): the usable points of a case, in grid order
CasePoints(r, data, caseName) ==
    LET all == [i \in 1..Len(data) |->
                   [sieveSize |-> data[i].sieveSize,
                    passing |-> PassingOf(r, data[i].vals[caseName])]]
        kept == SelectSeq(all, LAMBDA p : p.passing.kind = "number" /\ p.sieveSize > 0)
    IN  [i \in 1..Len(kept) |-> Point(kept[i].sieveSize, kept[i].passing.val)]

\* the guard of Cu: App.tsx also asks D60 > 0
CuDefined(r, D10, D60) ==
    /\ IsNumber(D10)
    /\ IsNumber(D60)
    /\ Positive(D10)
    /\ (r = "App" => Positive(D60))

\* the guard of Cc inside the Cu branch: App.tsx also asks D30 > 0
CcDefined(r, D30) == IsNumber(D30) /\ (r = "App" => Positive(D30))

\* Coefficients with the quotient of Cu upside down
Coefficients_Inverted(r, D10, D30, D60) ==
    IF CuDefined(r, D10, D60)
    THEN [Cu |-> Divide(D10, D60),
          Cc |-> IF CcDefined(r, D30)
                 THEN Divide(Times(D30, D30), Times(D10, D60))
                 ELSE JSString(NotApplicable)]
    ELSE [Cu |-> JSString(NotApplicable), Cc |-> JSString(NotApplicable)]

\* Coefficients with D30 not squared in Cc
Coefficients_CcNoSquare(r, D10, D30, D60) ==
    IF CuDefined(r, D10, D60)
    THEN [Cu |-> Divide(D60, D10),
          Cc |-> IF CcDefined(r, D30)
                 THEN Divide(D30, Times(D10, D60))
                 ELSE JSString(NotApplicable)]
    ELSE [Cu |-> JSString(NotApplicable), Cc |-> JSString(NotApplicable)]

Coefficients(r, D10, D30, D60) ==
    IF CuDefined(r, D10, D60)
    THEN [Cu |-> Divide(D60, D10),
          Cc |-> IF CcDefined(r, D30)
                 THEN Divide(Times(D30, D30), Times(D10, D60))
                 ELSE JSString(NotApplicable)]
    ELSE [Cu |-> JSString(NotApplicable), Cc |-> JSString(NotApplicable)]

CaseResult(r, data, caseName) ==
    LET pts == CasePoints(r, data, caseName)
    IN  IF Len(pts) < 2
        THEN ResultRow(caseName, JSString(NotApplicable), JSString(NotApplicable),
                       JSString(NotApplicable), JSString(NotApplicable),
                       JSString(NotApplicable))
        ELSE LET D10 == GetDValue(r, pts, Target10)
                 D30 == GetDValue(r, pts, Target30)
                 D60 == GetDValue(r, pts, Target60)
                 c == Coefficients(r, D10, D30, D60)
             IN  ResultRow(caseName, D10, D30, D60, c.Cu, c.Cc)

\* cases.map((caseName) => ...)
NewResults(r, data, cs) == [k \in 1..Len(cs) |-> CaseResult(r, data, cs[k])]

----------------------------------------------------------------------------
(* The component: state after construction and the handlers *)

\* bounds of the model
MaxEdits == 2       \* grid edits in one behaviour of Spec
MaxCases == 2       \* handleAddCase is not taken beyond this many cases
MaxPoints == 3      \* longest point list handed to getDValue in SpecD
CalcRows == 3       \* grid rows in SpecCalc
ValRows == 3        \* grid rows in SpecValidate
OrderRows == 3      \* rows of the argument of validateData in SpecOrder

\* initialSieveSizes, scaled down to two rows of powers of ten
initialSieveSizes == <<10, 1>>

\* initialCases, scaled down to two cases
initialCases == <<1, 2>>

initialSieveData ==
    [i \in 1..Len(initialSieveSizes) |->
        Row(initialSieveSizes[i], [c \in {initialCases[k] : k \in 1..Len(initialCases)} |-> <<>>])]

\* texts typed into a passing cell in Spec
CellTexts == {<<>>, <<"1", "0">>, <<"6", "0">>, <<"1", "5", "0">>}

\* texts typed into a sieve-size cell in Spec
SizeTexts == {<<>>, <<"1", "0">>}

Init ==
    /\ rev \in Revisions
    /\ sieveData = initialSieveData
    /\ cases = initialCases
    /\ results = <<>>
    /\ validationMessages = <<>>
    /\ visibleCases = [c \in {initialCases[k] : k \in 1..Len(initialCases)} |-> TRUE]
    /\ dLineCase = initialCases[1]
    /\ alerted = FALSE
    /\ lastHandler = ""
    /\ edits = 0
    /\ points = <<>>
    /\ target = 0
    /\ dValue = null

handleInputChange(rowIndex, caseName, value) ==
    LET newData == [sieveData EXCEPT ![rowIndex].vals[caseName] = value]
    IN  /\ edits < MaxEdits
        /\ edits' = edits + 1
        /\ sieveData' = newData
        /\ validationMessages' = ValidationMessagesOf(rev, newData, cases)
        /\ alerted' = FALSE
        /\ lastHandler' = "handleInputChange"
        /\ UNCHANGED <<rev, cases, results, visibleCases, dLineCase, points, target, dValue>>

\* the number handleSieveSizeChange reads from the text
SizeOf(r, value) ==
    LET n == IF r = "App" THEN Number(value) ELSE parseFloat(value)
    IN  IF n.kind = "NaN" THEN 0 ELSE n.val

handleSieveSizeChange(rowIndex, value) ==
    LET newData == SortBySizeDesc([sieveData EXCEPT ![rowIndex].sieveSize = SizeOf(rev, value)])
    IN  /\ edits < MaxEdits
        /\ edits' = edits + 1
        /\ sieveData' = newData
        /\ validationMessages' = ValidationMessagesOf(rev, newData, cases)
        /\ alerted' = FALSE
        /\ lastHandler' = "handleSieveSizeChange"
        /\ UNCHANGED <<rev, cases, results, visibleCases, dLineCase, points, target, dValue>>

\* handleCalculate without its early return
handleCalculate_NoGate ==
    LET messages == ValidationMessagesOf(rev, sieveData, cases)
    IN  /\ validationMessages' = messages
        /\ alerted' = ~validateData(messages)
        /\ results' = NewResults(rev, sieveData, cases)
        /\ lastHandler' = "handleCalculate"
        /\ UNCHANGED <<rev, sieveData, cases, visibleCases, dLineCase, edits, points, target, dValue>>

handleCalculate ==
    LET messages == ValidationMessagesOf(rev, sieveData, cases)
    IN  /\ validationMessages' = messages
        /\ IF ~validateData(messages)
           THEN /\ alerted' = TRUE
                /\ results' = results
           ELSE /\ alerted' = FALSE
                /\ results' = NewResults(rev, sieveData, cases)
        /\ lastHandler' = "handleCalculate"
        /\ UNCHANGED <<rev, sieveData, cases, visibleCases, dLineCase, edits, points, target, dValue>>

handleAddCase ==
    LET newCase == Len(cases) + 1
    IN  /\ Len(cases) < MaxCases
        /\ cases' = Append(cases, newCase)
        /\ sieveData' = [i \in 1..Len(sieveData) |->
                            Row(sieveData[i].sieveSize,
                                [c \in DOMAIN sieveData[i].vals \cup {newCase} |->
                                    IF c = newCase THEN <<>> ELSE sieveData[i].vals[c]])]
        /\ visibleCases' = [c \in DOMAIN visibleCases \cup {newCase} |->
                               IF c = newCase THEN TRUE ELSE visibleCases[c]]
        /\ alerted' = FALSE
        /\ lastHandler' = "handleAddCase"
        /\ UNCHANGED <<rev, results, validationMessages, dLineCase, edits, points, target, dValue>>

\* handleRemoveCase without the reset of dLineCase
handleRemoveCase_KeepDLine ==
    LET last == cases[Len(cases)]
    IN  /\ alerted' = FALSE
        /\ lastHandler' = "handleRemoveCase"
        /\ IF Len(cases) <= 1
           THEN UNCHANGED <<cases, sieveData, visibleCases, dLineCase>>
           ELSE /\ cases' = SubSeq(cases, 1, Len(cases) - 1)
                /\ sieveData' = [i \in 1..Len(sieveData) |->
                                    Row(sieveData[i].sieveSize,
                                        [c \in DOMAIN sieveData[i].vals \ {last} |->
                                            sieveData[i].vals[c]])]
                /\ visibleCases' = [c \in DOMAIN visibleCases \ {last} |-> visibleCases[c]]
                /\ UNCHANGED dLineCase
        /\ UNCHANGED <<rev, results, validationMessages, edits, points, target, dValue>>

handleRemoveCase ==
    LET last == cases[Len(cases)]
    IN  /\ alerted' = FALSE
        /\ lastHandler' = "handleRemoveCase"
        /\ IF Len(cases) <= 1
           THEN UNCHANGED <<cases, sieveData, visibleCases, dLineCase>>
           ELSE /\ cases' = SubSeq(cases, 1, Len(cases) - 1)
                /\ sieveData' = [i \in 1..Len(sieveData) |->
                                    Row(sieveData[i].sieveSize,
                                        [c \in DOMAIN sieveData[i].vals \ {last} |->
                                            sieveData[i].vals[c]])]
                /\ visibleCases' = [c \in DOMAIN visibleCases \ {last} |-> visibleCases[c]]
                /\ dLineCase' = IF dLineCase = last THEN cases[1] ELSE dLineCase
        /\ UNCHANGED <<rev, results, validationMessages, edits, points, target, dValue>>

\* onChange of the D-line <select>, whose options are the current cases
setDLineCase(c) ==
    /\ dLineCase' = c
    /\ alerted' = FALSE
    /\ lastHandler' = "setDLineCase"
    /\ UNCHANGED <<rev, sieveData, cases, results, validationMessages, visibleCases,
                   edits, points, target, dValue>>

Next ==
    \/ \E i \in 1..Len(sieveData), k \in 1..Len(cases), v \in CellTexts :
           handleInputChange(i, cases[k], v)
    \/ \E i \in 1..Len(sieveData), v \in SizeTexts : handleSieveSizeChange(i, v)
    \/ handleCalculate
    \/ handleAddCase
    \/ handleRemoveCase
    \/ \E k \in 1..Len(cases) : setDLineCase(cases[k])

Spec == Init /\ [][Next]_vars

----------------------------------------------------------------------------
(* Grids the component can hold: rows in descending order of sieve size    *)
(* (the initial grid is, and handleSieveSizeChange sorts), one text per    *)
(* cell.  SpecCalc and SpecValidate start from any such one-case grid,     *)
(* with the messages handleInputChange / handleSieveSizeChange left for it *)

SortedSizes(sizes, n) ==
    {sz \in [1..n -> sizes] : \A i \in 1..(n - 1) : sz[i] >= sz[i + 1]}

GridOf(sz, tx) == [i \in 1..Len(sz) |-> Row(sz[i], [c \in {1} |-> tx[i]])]

InitGrid(sizes, texts, n) ==
    /\ rev \in Revisions
    /\ \E sz \in SortedSizes(sizes, n), tx \in [1..n -> texts] : sieveData = GridOf(sz, tx)
    /\ cases = <<1>>
    /\ results = <<>>
    /\ validationMessages = ValidationMessagesOf(rev, sieveData, cases)
    /\ visibleCases = [c \in {1} |-> TRUE]
    /\ dLineCase = 1
    /\ alerted = FALSE
    /\ lastHandler = ""
    /\ edits = 0
    /\ points = <<>>
    /\ target = 0
    /\ dValue = null

\* sieve sizes and cell texts of SpecCalc
CalcSizes == {0, 1, 10, 1000}
CalcTexts == {<<>>, <<"0">>, <<"1", "0">>, <<"3", "0">>, <<"6", "0">>,
              <<"1", "0", "0">>, <<"1", "5", "0">>}

InitCalc == InitGrid(CalcSizes, CalcTexts, CalcRows)
NextCalc == handleCalculate
SpecCalc == InitCalc /\ [][NextCalc]_vars

\* sieve sizes and cell texts of SpecValidate
ValSizes == {0, 1, 10}
ValTexts == {<<>>, <<" ">>, <<"x">>, <<"-", "1">>, <<"0">>, <<"5", "0">>,
             <<"1", "0", "0">>, <<"1", "0", "1">>, <<"5", "0", "x">>}

InitValidate == InitGrid(ValSizes, ValTexts, ValRows)
NextValidate == handleCalculate
SpecValidate == InitValidate /\ [][NextValidate]_vars

----------------------------------------------------------------------------
(* Direct calls of getDValue.  The points arrive as handleCalculate hands  *)
(* them over: in grid order (descending sieve size), passing numeric.      *)
(* part_000 is only ever given points of positive size (it has no filter   *)
(* of its own); App.tsx filters again and is also given sizes <= 0.        *)

Targets == {Target10, Target30, Target60}
DSizes == {1, 10, 1000}
DPassings == {0, 10, 20, 60, 100}

PointLists(sizes) ==
    UNION {{[i \in 1..n |-> Point(sz[i], ps[i])] :
               sz \in SortedSizes(sizes, n), ps \in [1..n -> DPassings]} :
           n \in 0..MaxPoints}

InitD ==
    /\ rev \in Revisions
    /\ points \in PointLists(IF rev = "App" THEN DSizes \cup {0} ELSE DSizes)
    /\ target \in Targets
    /\ dValue = null
    /\ lastHandler = ""
    /\ sieveData = <<>>
    /\ cases = <<>>
    /\ results = <<>>
    /\ validationMessages = <<>>
    /\ visibleCases = <<>>
    /\ dLineCase = 0
    /\ alerted = FALSE
    /\ edits = 0

CallGetDValue ==
    /\ lastHandler = ""
    /\ dValue' = GetDValue(rev, points, target)
    /\ lastHandler' = "getDValue"
    /\ UNCHANGED <<rev, sieveData, cases, results, validationMessages, visibleCases,
                   dLineCase, alerted, edits, points, target>>

NextD == CallGetDValue
SpecD == InitD /\ [][NextD]_vars

----------------------------------------------------------------------------
(* Claims *)

Warnings(messages) == SelectSeq(messages, LAMBDA m : m.type = "warning")
Errors(messages) == SelectSeq(messages, LAMBDA m : m.type = "error")
Tagged(messages, idx, caseName) ==
    SelectSeq(messages, LAMBDA m : m.rowIndex = idx /\ m.caseName = caseName)

CaseSet == {cases[k] : k \in 1..Len(cases)}
RowSet == 1..Len(sieveData)

\* the number in cell (i, c) is a number and lies outside [0, 100]
CellOutOfRange(i, c) ==
    LET v == CellValue(rev, sieveData[i].vals[c])
    IN  v.kind = "number" /\ (v.val < 0 \/ v.val > 100)

\* the number in cell (i, c) is a number and lies in [0, 100]
CellInRange(i, c) ==
    LET v == CellValue(rev, sieveData[i].vals[c])
    IN  v.kind = "number" /\ v.val >= 0 /\ v.val <= 100

\* cell (i, c) is blank or does not parse as a number
CellNotNumeric(i, c) == CellValue(rev, sieveData[i].vals[c]).kind \in {"null", "NaN"}

\* the rows that share row i's sieve size (validateData tags them all alike)
SizeGroup(i) == {j \in RowSet : sieveData[j].sieveSize = sieveData[i].sieveSize}

\* the grid with every cell that satisfies Hide emptied
Emptied(Hide(_, _)) ==
    [i \in RowSet |->
        Row(sieveData[i].sieveSize,
            [c \in DOMAIN sieveData[i].vals |->
                IF c \in CaseSet /\ Hide(i, c) THEN <<>> ELSE sieveData[i].vals[c]])]

\* C1: handleCalculate leaves results untouched when validateData on the
\* current grid emits an Error for any case, and otherwise sets results to
\* one row per case, in case order.
C1_AllOrNothingGate ==
    [][lastHandler' = "handleCalculate" =>
          IF HasError(ValidationMessagesOf(rev, sieveData, cases))
          THEN results' = results
          ELSE /\ Len(results') = Len(cases)
               /\ \A k \in 1..Len(cases) : results'[k].caseName = cases[k]]_vars

\* a blocked handleCalculate: results computed earlier are still there, and
\* one case has an Error while another has none
C1_Witness ==
    /\ lastHandler = "handleCalculate"
    /\ alerted
    /\ results # <<>>
    /\ \E c \in CaseSet, d \in CaseSet :
           /\ \E i \in RowSet : Errors(Tagged(validationMessages, i, c)) # <<>>
           /\ \A i \in RowSet : Errors(Tagged(validationMessages, i, d)) = <<>>

\* C2: a value that parses to a number outside [0, 100] yields exactly one
\* Error and no Warning and leaves the last-valid value alone: the Warnings
\* are those of the grid with these cells emptied, each such cell adds one
\* Error under its row tag, and a row group holding only values in [0, 100]
\* (0 and 100 included) has no Error.
C2_OutOfRangeIsOneError ==
    lastHandler = "handleCalculate" =>
        LET ref == ValidationMessagesOf(rev, Emptied(CellOutOfRange), cases)
        IN  /\ Warnings(validationMessages) = Warnings(ref)
            /\ \A c \in CaseSet, i \in RowSet :
                   Len(Errors(Tagged(validationMessages, i, c)))
                     = Len(Errors(Tagged(ref, i, c)))
                       + (IF i = FindIndex(sieveData, sieveData[i].sieveSize)
                          THEN Cardinality({j \in SizeGroup(i) : CellOutOfRange(j, c)})
                          ELSE 0)
            /\ \A c \in CaseSet, i \in RowSet :
                   (\A j \in SizeGroup(i) : CellInRange(j, c))
                       => Errors(Tagged(validationMessages, i, c)) = <<>>

\* 50, then 101, then 100 down the sizes: one Error, and 100 is compared with 50
C2_Witness ==
    /\ lastHandler = "handleCalculate"
    /\ Len(sieveData) >= 3
    /\ sieveData[1].sieveSize > sieveData[2].sieveSize
    /\ sieveData[2].sieveSize > sieveData[3].sieveSize
    /\ sieveData[1].vals[1] = <<"5", "0">>
    /\ sieveData[2].vals[1] = <<"1", "0", "1">>
    /\ sieveData[3].vals[1] = <<"1", "0", "0">>
    /\ validationMessages = <<Message(2, 1, "error"), Message(3, 1, "warning")>>

\* the in-range values of case c in scan order (descending sieve size), each
\* with the row tag validateData gives it
InRangeScan(c) ==
    LET sorted == SortBySizeDesc(sieveData)
        kept == SelectSeq(sorted, LAMBDA row :
                    LET v == CellValue(rev, row.vals[c])
                    IN  v.kind = "number" /\ v.val >= 0 /\ v.val <= 100)
    IN  [j \in 1..Len(kept) |->
            [idx |-> FindIndex(sieveData, kept[j].sieveSize),
             val |-> CellValue(rev, kept[j].vals[c]).val]]

\* a Warning for every in-range value greater than the in-range value before it
StepUps(c) ==
    LET scan == InRangeScan(c)
        ups == SelectSeq([j \in 1..Len(scan) |-> j],
                         LAMBDA j : j > 1 /\ scan[j].val > scan[j - 1].val)
    IN  [n \in 1..Len(ups) |-> Message(scan[ups[n]].idx, c, "warning")]

\* C3: an in-range value draws a Warning iff it exceeds the in-range value
\* scanned just before it (which becomes the last-valid value even when it
\* drew a Warning itself), and never draws an Error.
C3_WarningIffStepUp ==
    lastHandler = "handleCalculate" =>
        \A c \in CaseSet :
            /\ SelectSeq(Warnings(validationMessages), LAMBDA m : m.caseName = c) = StepUps(c)
            /\ Len(SelectSeq(Errors(validationMessages), LAMBDA m : m.caseName = c))
                 = Cardinality({i \in RowSet : ~CellInRange(i, c) /\ ~CellNotNumeric(i, c)})
                   + Cardinality({i \in RowSet :
                                     CellValue(rev, sieveData[i].vals[c]).kind = "NaN"})

\* 50, then 100, then 50 down the sizes: one Warning, at the step up
C3_Witness ==
    /\ lastHandler = "handleCalculate"
    /\ Len(sieveData) >= 3
    /\ sieveData[1].sieveSize > sieveData[2].sieveSize
    /\ sieveData[2].sieveSize > sieveData[3].sieveSize
    /\ sieveData[1].vals[1] = <<"5", "0">>
    /\ sieveData[2].vals[1] = <<"1", "0", "0">>
    /\ sieveData[3].vals[1] = <<"5", "0">>
    /\ validationMessages = <<Message(2, 1, "warning")>>

\* C4: a blank cell and a cell that does not parse as a number are skipped
\* alike: the messages are those of the grid with every such cell emptied,
\* and a grid holding only such cells has no message and is calculable.
C4_NonNumericSkipped ==
    lastHandler = "handleCalculate" =>
        /\ validationMessages = ValidationMessagesOf(rev, Emptied(CellNotNumeric), cases)
        /\ (\A c \in CaseSet, i \in RowSet : CellNotNumeric(i, c))
               => validationMessages = <<>> /\ ~alerted

\* a successful handleCalculate has just written results
Calculated == lastHandler = "handleCalculate" /\ ~alerted

\* C5: three numeric D-values of a result row satisfy D10 <= D30 <= D60.
C5_DValuesOrdered ==
    Calculated =>
        \A k \in 1..Len(results) :
            (IsNumber(results[k].D10) /\ IsNumber(results[k].D30) /\ IsNumber(results[k].D60))
                => /\ NumLeq(results[k].D10, results[k].D30)
                   /\ NumLeq(results[k].D30, results[k].D60)

\* the usable points of a direct getDValue call, and their passing values
Usable == SelectSeq(points, LAMBDA p : p.sieveSize > 0)
UsablePassings == {Usable[i].passing : i \in 1..Len(Usable)}
MinPassing == CHOOSE m \in UsablePassings : \A q \in UsablePassings : m <= q
MaxPassing == CHOOSE m \in UsablePassings : \A q \in UsablePassings : m >= q

\* C6: with at least 2 usable points getDValue returns the out-of-range
\* sentinel iff the target is below the least or above the greatest passing
\* value; a target equal to either is answered with a number.
C6_OutOfRangeIffOutside ==
    (lastHandler = "getDValue" /\ Len(Usable) >= 2) =>
        /\ dValue = JSString(OutOfRange) <=> (target < MinPassing \/ target > MaxPassing)
        /\ target \in {MinPassing, MaxPassing} => IsNumber(dValue)

\* a target equal to the greatest of several passing values gets a number
C6_Witness ==
    /\ lastHandler = "getDValue"
    /\ Len(Usable) >= 2
    /\ MinPassing < MaxPassing
    /\ target = MaxPassing
    /\ IsNumber(dValue)

\* the rows of the grid that give case c a usable point
UsableRows(c) ==
    {i \in RowSet : sieveData[i].sieveSize > 0
                    /\ PassingOf(rev, sieveData[i].vals[c]).kind = "number"}

NotNumeric(v) == v.kind = "string"

\* C7: for a case with fewer than 2 usable points getDValue answers every
\* target with the insufficient-data sentinel, and the case's result row has
\* no number in D10, D30, D60, Cu or Cc.
C7_FewPointsNoNumbers ==
    \A c \in CaseSet :
        Cardinality(UsableRows(c)) < 2 =>
            /\ \A t \in Targets :
                   GetDValue(rev, CasePoints(rev, sieveData, c), t) = JSString(InsufficientData)
            /\ Calculated =>
                   \A k \in 1..Len(results) :
                       results[k].caseName = c =>
                           /\ NotNumeric(results[k].D10)
                           /\ NotNumeric(results[k].D30)
                           /\ NotNumeric(results[k].D60)
                           /\ NotNumeric(results[k].Cu)
                           /\ NotNumeric(results[k].Cc)

\* a calculated case with exactly one usable point
C7_Witness ==
    /\ Calculated
    /\ Len(results) = 1
    /\ Cardinality(UsableRows(1)) = 1

\* C8: with at least 2 usable points and a point whose passing equals the
\* target, getDValue returns the sieveSize of such a point as it stands.
C8_ExactHitReturnsSize ==
    (lastHandler = "getDValue" /\ Len(Usable) >= 2 /\ target \in UsablePassings) =>
        /\ dValue.kind = "number"
        /\ \E i \in 1..Len(Usable) :
               Usable[i].passing = target /\ Usable[i].sieveSize = dValue.val

\* one point hits the target exactly, between a lower and a higher point
C8_Witness ==
    /\ lastHandler = "getDValue"
    /\ Len(Usable) >= 3
    /\ MinPassing < target
    /\ target < MaxPassing
    /\ Cardinality({i \in 1..Len(Usable) : Usable[i].passing = target}) = 1
    /\ dValue.kind = "number"

\* p1: of the usable points with passing <= target, the one latest in the
\* order "ascending passing, ties in incoming order"
LowerBracket ==
    CHOOSE i \in 1..Len(Usable) :
        /\ Usable[i].passing <= target
        /\ \A j \in 1..Len(Usable) :
               Usable[j].passing <= target =>
                   \/ Usable[j].passing < Usable[i].passing
                   \/ Usable[j].passing = Usable[i].passing /\ j <= i

\* p2: of the usable points with passing >= target, the one earliest in it
UpperBracket ==
    CHOOSE i \in 1..Len(Usable) :
        /\ Usable[i].passing >= target
        /\ \A j \in 1..Len(Usable) :
               Usable[j].passing >= target =>
                   \/ Usable[j].passing > Usable[i].passing
                   \/ Usable[j].passing = Usable[i].passing /\ j >= i

\* C9: for an in-range target getDValue brackets with p1 = the last point
\* with passing <= target and p2 = the first with passing >= target; an exact
\* hit returns p1's size, anything else
\* 10^(L1 + (L2 - L1) * (target - p1.passing) / (p2.passing - p1.passing)).
C9_AsymmetricBrackets ==
    (/\ lastHandler = "getDValue"
     /\ Len(Usable) >= 2
     /\ MinPassing <= target
     /\ target <= MaxPassing) =>
        LET p1 == Usable[LowerBracket]
            p2 == Usable[UpperBracket]
            L1 == Log10(p1.sieveSize)
            L2 == Log10(p2.sieveSize)
            dp == p2.passing - p1.passing
        IN  IF p1.passing = target
            THEN dValue = JSNumber(p1.sieveSize)
            ELSE /\ dValue.kind = "pow10"
                 /\ dValue.den > 0
                 /\ dValue.num * dp = (L1 * dp + (L2 - L1) * (target - p1.passing)) * dValue.den

\* an interpolation out of a tie group of two different sieve sizes
C9_Witness ==
    /\ lastHandler = "getDValue"
    /\ Len(Usable) >= 2
    /\ MinPassing < target
    /\ target < MaxPassing
    /\ target \notin UsablePassings
    /\ dValue.kind = "pow10"
    /\ \E i \in 1..Len(Usable) :
           /\ i # LowerBracket
           /\ Usable[i].passing = Usable[LowerBracket].passing
           /\ Usable[i].sieveSize # Usable[LowerBracket].sieveSize

\* C10: in a result row Cu is D60 / D10 when D10 and D60 are numbers and
\* D10 > 0, and the not-applicable sentinel otherwise.
C10_CuIsQuotient ==
    Calculated =>
        \A k \in 1..Len(results) :
            LET r == results[k]
            IN  IF IsNumber(r.D10) /\ IsNumber(r.D60) /\ Positive(r.D10)
                THEN LET l60 == LogOf(r.D60)
                         l10 == LogOf(r.D10)
                     IN  /\ r.Cu.kind = "pow10"
                         /\ r.Cu.den > 0
                         /\ r.Cu.num * (l60[2] * l10[2])
                              = (l60[1] * l10[2] - l10[1] * l60[2]) * r.Cu.den
                ELSE r.Cu = JSString(NotApplicable)

\* a row whose Cu is a number other than 1
C10_Witness ==
    /\ Calculated
    /\ \E k \in 1..Len(results) : results[k].Cu.kind = "pow10" /\ results[k].Cu.num # 0

\* C11: in a result row Cc is D30^2 / (D10 * D60) when D10, D30 and D60 are
\* numbers and D10 > 0 and D60 > 0, and the not-applicable sentinel
\* otherwise; Cc is never a number where Cu is a sentinel.
C11_CcIsCurvature ==
    Calculated =>
        \A k \in 1..Len(results) :
            LET r == results[k]
            IN  /\ IF /\ IsNumber(r.D10) /\ IsNumber(r.D30) /\ IsNumber(r.D60)
                      /\ Positive(r.D10) /\ Positive(r.D60)
                   THEN LET l10 == LogOf(r.D10)
                            l30 == LogOf(r.D30)
                            l60 == LogOf(r.D60)
                        IN  /\ r.Cc.kind = "pow10"
                            /\ r.Cc.den > 0
                            /\ r.Cc.num * (l10[2] * l30[2] * l60[2])
                                 = (2 * l30[1] * l10[2] * l60[2]
                                    - l10[1] * l30[2] * l60[2]
                                    - l60[1] * l10[2] * l30[2]) * r.Cc.den
                   ELSE r.Cc = JSString(NotApplicable)
                /\ NotNumeric(r.Cu) => NotNumeric(r.Cc)

\* a row whose Cc is a number other than 1, from an interpolated D30
C11_Witness ==
    /\ Calculated
    /\ \E k \in 1..Len(results) :
           /\ results[k].Cc.kind = "pow10"
           /\ results[k].Cc.num # 0
           /\ results[k].D30.kind = "pow10"

\* cell (i, c) sits on a row whose sieve size is zero or negative
CellOnUnsetRow(i, c) == sieveData[i].sieveSize <= 0

\* C12: a row whose sieve size is zero or negative takes no part in anything:
\* its values give no point to a D-value, draw no Error or Warning, are never
\* the last-valid value and cannot block handleCalculate, so messages, alert
\* and results are those of the grid with these rows' cells emptied.
C12_UnsetRowsIgnored ==
    lastHandler = "handleCalculate" =>
        LET ref == ValidationMessagesOf(rev, Emptied(CellOnUnsetRow), cases)
        IN  /\ validationMessages = ref
            /\ alerted <=> HasError(ref)
            /\ ~alerted => results = NewResults(rev, Emptied(CellOnUnsetRow), cases)

----------------------------------------------------------------------------
(* Direct calls of validateData(data) on rows in any order, all of         *)
(* different sieve size; sieveData holds the argument.                      *)

OrderSizes == {0, 1, 10, 100}
OrderTexts == {<<>>, <<"0">>, <<"5", "0">>, <<"1", "0", "0">>, <<"1", "0", "1">>}

InitOrder ==
    /\ rev \in Revisions
    /\ \E sz \in {f \in [1..OrderRows -> OrderSizes] :
                     \A i \in 1..OrderRows, j \in 1..OrderRows : i # j => f[i] # f[j]},
          tx \in [1..OrderRows -> OrderTexts] : sieveData = GridOf(sz, tx)
    /\ cases = <<1>>
    /\ results = <<>>
    /\ validationMessages = <<>>
    /\ visibleCases = [c \in {1} |-> TRUE]
    /\ dLineCase = 1
    /\ alerted = FALSE
    /\ lastHandler = ""
    /\ edits = 0
    /\ points = <<>>
    /\ target = 0
    /\ dValue = null

CallValidateData ==
    /\ lastHandler = ""
    /\ validationMessages' = ValidationMessagesOf(rev, sieveData, cases)
    /\ lastHandler' = "validateData"
    /\ UNCHANGED <<rev, sieveData, cases, results, visibleCases, dLineCase, alerted,
                   edits, points, target, dValue>>

NextOrder == CallValidateData
SpecOrder == InitOrder /\ [][NextOrder]_vars

\* the (sieve size, case, severity) triples of messages about the rows of data
Triples(messages, data) ==
    {<<data[messages[n].rowIndex].sieveSize, messages[n].caseName, messages[n].type>> :
        n \in 1..Len(messages)}

\* C13: for rows of pairwise different sieve size, validateData emits the
\* same (sieve size, case, severity) triples whatever the order of the rows.
C13_RowOrderIrrelevant ==
    lastHandler = "validateData" =>
        \A perm \in Permutations(RowSet) :
            LET other == [i \in RowSet |-> sieveData[perm[i]]]
            IN  Triples(ValidationMessagesOf(rev, other, cases), other)
                  = Triples(validationMessages, sieveData)

\* rows given in ascending size, with a Warning found along descending size
C13_Witness ==
    /\ lastHandler = "validateData"
    /\ \A i \in 1..(Len(sieveData) - 1) :
           sieveData[i].sieveSize < sieveData[i + 1].sieveSize
    /\ Warnings(validationMessages) # <<>>
    /\ Errors(validationMessages) # <<>>

\* C14: a case that draws no Error and no Warning, on a grid whose sieve
\* sizes are all positive, has D10 <= D30 <= D60 whenever the three are
\* numbers, tie groups of equal passing included.
C14_CleanCaseOrdered ==
    Calculated =>
        \A k \in 1..Len(results) :
            (/\ \A i \in RowSet : sieveData[i].sieveSize > 0
             /\ \A n \in 1..Len(validationMessages) :
                    validationMessages[n].caseName # results[k].caseName
             /\ IsNumber(results[k].D10)
             /\ IsNumber(results[k].D30)
             /\ IsNumber(results[k].D60))
                => /\ NumLeq(results[k].D10, results[k].D30)
                   /\ NumLeq(results[k].D30, results[k].D60)

\* C15: with at least 2 usable points getDValue never
\* returns the cannot-compute sentinel, and when no point hits the target
\* exactly the loop ends with two different points of positive size and
\* p1.passing < target < p2.passing, so the divisor is not zero.
C15_NoIndeterminate ==
    (lastHandler = "getDValue" /\ Len(Usable) >= 2) =>
        /\ dValue # JSString(Indeterminate)
        /\ (MinPassing <= target /\ target <= MaxPassing /\ target \notin UsablePassings) =>
               LET valid == SortByPassing(Usable)
                   b == Brackets(valid, target)
               IN  /\ b[1] # 0
                   /\ b[2] # 0
                   /\ b[1] # b[2]
                   /\ valid[b[1]].sieveSize > 0
                   /\ valid[b[2]].sieveSize > 0
                   /\ valid[b[1]].passing < target
                   /\ target < valid[b[2]].passing
                   /\ dValue.kind = "pow10"

\* an interpolation between exactly two usable points
C15_Witness ==
    /\ lastHandler = "getDValue"
    /\ Len(Usable) = 2
    /\ target \notin UsablePassings
    /\ dValue.kind = "pow10"

\* the least and the greatest log10 of the usable sieve sizes
UsableLogs == {Log10(Usable[i].sieveSize) : i \in 1..Len(Usable)}
MinLog == CHOOSE m \in UsableLogs : \A q \in UsableLogs : m <= q
MaxLog == CHOOSE m \in UsableLogs : \A q \in UsableLogs : m >= q

\* C16: a number returned by getDValue lies between the sieve sizes of its
\* two bracketing points, hence within the least and greatest usable sieve
\* size, and is positive.
C16_NoSizeExtrapolation ==
    (lastHandler = "getDValue" /\ IsNumber(dValue)) =>
        LET l == LogOf(dValue)
            l1 == <<Log10(Usable[LowerBracket].sieveSize), 1>>
            l2 == <<Log10(Usable[UpperBracket].sieveSize), 1>>
        IN  /\ Positive(dValue)
            /\ (RatLeq(l1, l) /\ RatLeq(l, l2)) \/ (RatLeq(l2, l) /\ RatLeq(l, l1))
            /\ RatLeq(<<MinLog, 1>>, l)
            /\ RatLeq(l, <<MaxLog, 1>>)

\* an interpolated size strictly between two different bracketing sizes
C16_Witness ==
    /\ lastHandler = "getDValue"
    /\ dValue.kind = "pow10"
    /\ Usable[LowerBracket].sieveSize # Usable[UpperBracket].sieveSize
    /\ RatLess(<<MinLog, 1>>, LogOf(dValue))
    /\ RatLess(LogOf(dValue), <<MaxLog, 1>>)

\* C17: every message of validateData is tagged with the row whose passing
\* value triggered it (an Error on a cell that is out of range or not a
\* number, a Warning on a cell that holds a number in range), also when two
\* rows share a sieve size, and no cell carries two messages.
C17_MessageOnTriggeringCell ==
    lastHandler = "handleCalculate" =>
        /\ \A n \in 1..Len(validationMessages) :
               LET m == validationMessages[n]
               IN  /\ m.rowIndex \in RowSet
                   /\ m.type = "error" =>
                          \/ CellOutOfRange(m.rowIndex, m.caseName)
                          \/ CellValue(rev, sieveData[m.rowIndex].vals[m.caseName]).kind = "NaN"
                   /\ m.type = "warning" => CellInRange(m.rowIndex, m.caseName)
        /\ \A i \in RowSet, c \in CaseSet :
               Len(Tagged(validationMessages, i, c)) <= 1

\* the case list is 'Case 1' .. 'Case n' with n >= 1, every row and the
\* visibility map have exactly these cases, and the D-line case is one of them
CaseListWellFormed ==
    /\ Len(cases) >= 1
    /\ \A k \in 1..Len(cases) : cases[k] = k
    /\ dLineCase \in CaseSet
    /\ DOMAIN visibleCases = CaseSet
    /\ \A i \in RowSet : DOMAIN sieveData[i].vals = CaseSet

\* handleRemoveCase on a list of one case leaves the application state alone
RemoveOnSingleCaseIsNoOp ==
    (lastHandler' = "handleRemoveCase" /\ Len(cases) = 1) =>
        UNCHANGED <<cases, sieveData, visibleCases, dLineCase, results, validationMessages>>

\* C18: through every sequence of handlers the case list is never empty and
\* is exactly 'Case 1' .. 'Case n', dLineCase is always one of the current
\* cases, and handleRemoveCase on a single-case list changes nothing.
C18_CaseListInvariant ==
    /\ []CaseListWellFormed
    /\ [][RemoveOnSingleCaseIsNoOp]_vars

\* the last case was removed while it was the D-line case, the selection
\* fell back to the first case, and the list is down to one case
C18_Witness ==
    /\ lastHandler = "handleRemoveCase"
    /\ Len(cases) = 1
    /\ dLineCase = cases[1]
    /\ \A i \in RowSet : DOMAIN sieveData[i].vals = {cases[1]}

====
